---- MODULE Spec2Model ----
(***************************************************************************)
(* Model of dyn-advisor: the graph catalog (catalog.py), the record        *)
(* extraction it calls (parser.py) and the recommendation engine           *)
(* (recommender.py).                                                       *)
(*                                                                         *)
(* A Python str is modelled as a sequence of one-character strings, so     *)
(* that lower(), re.findall(r'\w+'), `in` and == are computed character    *)
(* by character.  Text produced by f-strings (explanations) is a sequence  *)
(* of pieces: literal fragments and the characters of interpolated values. *)
(* Scores are the floats 0.0, 3.0, 5.0, ... of the source; every weight is *)
(* a whole number, so they are modelled as integers.                       *)
(***************************************************************************)
EXTENDS Integers, Sequences, FiniteSets, TLC

(***************************************************************************)
(* Bounds of the model                                                     *)
(***************************************************************************)
\* largest number of files present under the graph repository at one time
MaxFiles == 3
\* cap on the length of GraphCatalog.docs (it grows with every rebuild)
MaxDocs == 4
\* largest max_results passed to recommend
MaxK == 2

(***************************************************************************)
(* Strings                                                                 *)
(***************************************************************************)
UpperToLower ==
    [A |-> "a", B |-> "b", C |-> "c", D |-> "d", E |-> "e", F |-> "f",
     G |-> "g", H |-> "h", I |-> "i", J |-> "j", K |-> "k", L |-> "l",
     M |-> "m", N |-> "n", O |-> "o", P |-> "p", Q |-> "q", R |-> "r",
     S |-> "s", T |-> "t", U |-> "u", V |-> "v", W |-> "w", X |-> "x",
     Y |-> "y", Z |-> "z"]

LowerLetters == {UpperToLower[c] : c \in DOMAIN UpperToLower}

Digits == {"0", "1", "2", "3", "4", "5", "6", "7", "8", "9"}

\* the characters matched by the regular expression class \w
WordChars == LowerLetters \cup DOMAIN UpperToLower \cup Digits \cup {"_"}

LowerChar(c) == IF c \in DOMAIN UpperToLower THEN UpperToLower[c] ELSE c

\* str.lower()
Lower(s) == [i \in 1..Len(s) |-> LowerChar(s[i])]

\* a in b, for two str
IsSubstr(a, b) ==
    /\ Len(a) <= Len(b)
    /\ \E i \in 0..(Len(b) - Len(a)) : SubSeq(b, i + 1, i + Len(a)) = a

\* re.findall(r'\w+', s): the maximal runs of word characters, left to right
RECURSIVE FindAllFrom(_, _, _, _)
FindAllFrom(s, i, cur, acc) ==
    IF i > Len(s)
    THEN IF cur = <<>> THEN acc ELSE Append(acc, cur)
    ELSE IF s[i] \in WordChars
         THEN FindAllFrom(s, i + 1, Append(cur, s[i]), acc)
         ELSE FindAllFrom(s, i + 1, <<>>,
                          IF cur = <<>> THEN acc ELSE Append(acc, cur))

FindAll(s) == FindAllFrom(s, 1, <<>>, <<>>)

\* set(re.findall(r'\w+', s))
WordSet(s) == LET words == FindAll(s) IN {words[i] : i \in 1..Len(words)}

\* str(n) for a non-negative int
RECURSIVE IntStr(_)
IntStr(n) ==
    LET d == <<"0", "1", "2", "3", "4", "5", "6", "7", "8", "9">>[(n % 10) + 1]
    IN  IF n < 10 THEN <<d>> ELSE Append(IntStr(n \div 10), d)

\* sep.join(parts), for a list of texts
RECURSIVE Join(_, _)
Join(sep, parts) ==
    IF parts = <<>> THEN <<>>
    ELSE IF Len(parts) = 1 THEN parts[1]
    ELSE parts[1] \o sep \o Join(sep, Tail(parts))

\* the orders in which a for loop may visit the elements of a set
Orders(S) ==
    {o \in [1..Cardinality(S) -> S] : \A i, j \in DOMAIN o : o[i] = o[j] => i = j}

(***************************************************************************)
(* Files on disk                                                           *)
(*                                                                         *)
(* A .dyn file is its stem, whether open() and json.load() succeed on it,  *)
(* and the keys of the JSON object it holds.  A key is either absent       *)
(* (None) or present with a string value (Some).                           *)
(***************************************************************************)
None == [has |-> FALSE, val |-> <<>>]

Some(s) == [has |-> TRUE, val |-> s]

\* dict.get(key, default)
Get(field, default) == IF field.has THEN field.val ELSE default

\* an entry of the Nodes array that is a JSON object
DictNode(name, type, id) == [dict |-> TRUE, Name |-> name, ConcreteType |-> type, Id |-> id]

\* an entry of the Nodes array that is not a JSON object
NonDictNode == [dict |-> FALSE, Name |-> None, ConcreteType |-> None, Id |-> None]

\* test.dyn of test_explain_recommendation, with an empty description
TestGraphFile ==
    [stem |-> <<"t", "e", "s", "t">>,
     loads |-> TRUE,
     Name |-> Some(<<"T", "e", "s", "t", " ", "G", "r", "a", "p", "h">>),
     Description |-> Some(<<>>),
     Uuid |-> None,
     Author |-> None,
     Category |-> Some(<<"T", "e", "s", "t", "i", "n", "g">>),
     Nodes |-> [kind |-> "list", items |-> <<
         >>],
     Connectors |-> [kind |-> "list", len |-> 0],
     View |-> [has |-> FALSE, X |-> 0, Y |-> 0, Zoom |-> 1]]

\* a second graph whose name differs from "Test Graph" in case only
DupGraphFile ==
    [stem |-> <<"d", "u", "p">>,
     loads |-> TRUE,
     Name |-> Some(<<"t", "e", "s", "t", " ", "g", "r", "a", "p", "h">>),
     Description |-> Some(<<"S", "i", "m", "p", "l", "e", " ", "t", "e", "s", "t">>),
     Uuid |-> None,
     Author |-> None,
     Category |-> Some(<<"T", "e", "s", "t", "i", "n", "g">>),
     Nodes |-> [kind |-> "list", items |-> <<
         >>],
     Connectors |-> [kind |-> "list", len |-> 0],
     View |-> [has |-> FALSE, X |-> 0, Y |-> 0, Zoom |-> 1]]

\* test0.dyn of test_recommend
SimpleRectangleFile ==
    [stem |-> <<"t", "e", "s", "t", "0">>,
     loads |-> TRUE,
     Name |-> Some(<<"S", "i", "m", "p", "l", "e", " ", "R", "e", "c", "t", "a", "n", "g", "l", "e">>),
     Description |-> Some(<<"C", "r", "e", "a", "t", "e", "s", " ", "a", " ", "s", "i", "m", "p", "l", "e", " ", "r", "e", "c", "t", "a", "n", "g", "l", "e">>),
     Uuid |-> None,
     Author |-> None,
     Category |-> Some(<<"G", "e", "o", "m", "e", "t", "r", "y">>),
     Nodes |-> [kind |-> "list", items |-> <<
         DictNode(Some(<<"R", "e", "c", "t", "a", "n", "g", "l", "e", "0">>), Some(<<"T", "y", "p", "e">>), Some(<<"n", "0">>)),
         DictNode(Some(<<"R", "e", "c", "t", "a", "n", "g", "l", "e", "1">>), Some(<<"T", "y", "p", "e">>), Some(<<"n", "1">>)),
         DictNode(Some(<<"P", "o", "i", "n", "t">>), Some(<<"G", "e", "o", "m", "e", "t", "r", "y", ".", "P", "o", "i", "n", "t">>), None)>>],
     Connectors |-> [kind |-> "list", len |-> 0],
     View |-> [has |-> TRUE, X |-> 0, Y |-> 0, Zoom |-> 1]]

\* test1.dyn of test_recommend: exactly 10 nodes
ComplexWallFile ==
    [stem |-> <<"t", "e", "s", "t", "1">>,
     loads |-> TRUE,
     Name |-> Some(<<"C", "o", "m", "p", "l", "e", "x", " ", "W", "a", "l", "l", " ", "A", "n", "a", "l", "y", "s", "i", "s">>),
     Description |-> Some(<<"A", "n", "a", "l", "y", "z", "e", "s", " ", "w", "a", "l", "l", " ", "p", "r", "o", "p", "e", "r", "t", "i", "e", "s", " ", "i", "n", " ", "d", "e", "t", "a", "i", "l">>),
     Uuid |-> None,
     Author |-> None,
     Category |-> Some(<<"A", "n", "a", "l", "y", "s", "i", "s">>),
     Nodes |-> [kind |-> "list", items |-> <<
         DictNode(Some(<<"N", "o", "d", "e">>), Some(<<"T", "y", "p", "e">>), Some(<<"n", "0">>)),
         DictNode(Some(<<"N", "o", "d", "e">>), Some(<<"T", "y", "p", "e">>), Some(<<"n", "1">>)),
         DictNode(Some(<<"N", "o", "d", "e">>), Some(<<"T", "y", "p", "e">>), Some(<<"n", "2">>)),
         DictNode(Some(<<"N", "o", "d", "e">>), Some(<<"T", "y", "p", "e">>), Some(<<"n", "3">>)),
         DictNode(Some(<<"N", "o", "d", "e">>), Some(<<"T", "y", "p", "e">>), Some(<<"n", "4">>)),
         DictNode(Some(<<"N", "o", "d", "e">>), Some(<<"T", "y", "p", "e">>), Some(<<"n", "5">>)),
         DictNode(Some(<<"N", "o", "d", "e">>), Some(<<"T", "y", "p", "e">>), Some(<<"n", "6">>)),
         DictNode(Some(<<"N", "o", "d", "e">>), Some(<<"T", "y", "p", "e">>), Some(<<"n", "7">>)),
         DictNode(Some(<<"N", "o", "d", "e">>), Some(<<"T", "y", "p", "e">>), Some(<<"n", "8">>)),
         DictNode(Some(<<"N", "o", "d", "e">>), Some(<<"T", "y", "p", "e">>), Some(<<"n", "9">>))>>],
     Connectors |-> [kind |-> "list", len |-> 0],
     View |-> [has |-> FALSE, X |-> 0, Y |-> 0, Zoom |-> 1]]

\* a file without Name, Description and Category: 11 entries under Nodes, two of them not objects
BigFile ==
    [stem |-> <<"b", "i", "g">>,
     loads |-> TRUE,
     Name |-> None,
     Description |-> None,
     Uuid |-> None,
     Author |-> None,
     Category |-> None,
     Nodes |-> [kind |-> "list", items |-> <<
         DictNode(Some(<<"W", "a", "l", "l">>), Some(<<"C", "o", "m", "p", "l", "e", "x", ".", "T", "y", "p", "e">>), None),
         DictNode(Some(<<"W", "a", "l", "l">>), Some(<<"C", "o", "m", "p", "l", "e", "x", ".", "T", "y", "p", "e">>), None),
         DictNode(Some(<<"W", "a", "l", "l">>), Some(<<"C", "o", "m", "p", "l", "e", "x", ".", "T", "y", "p", "e">>), None),
         NonDictNode,
         NonDictNode,
         DictNode(None, Some(<<"W", "a", "l", "l", ".", "T", "y", "p", "e">>), None),
         DictNode(None, Some(<<"W", "a", "l", "l", ".", "T", "y", "p", "e">>), None),
         DictNode(None, Some(<<"W", "a", "l", "l", ".", "T", "y", "p", "e">>), None),
         DictNode(None, Some(<<"W", "a", "l", "l", ".", "T", "y", "p", "e">>), None),
         DictNode(None, Some(<<"W", "a", "l", "l", ".", "T", "y", "p", "e">>), None),
         DictNode(None, Some(<<"W", "a", "l", "l", ".", "T", "y", "p", "e">>), None)>>],
     Connectors |-> [kind |-> "list", len |-> 2],
     View |-> [has |-> FALSE, X |-> 0, Y |-> 0, Zoom |-> 1]]

\* a file that json.load rejects
BrokenFile ==
    [stem |-> <<"b", "r", "o", "k", "e", "n">>,
     loads |-> FALSE,
     Name |-> None,
     Description |-> None,
     Uuid |-> None,
     Author |-> None,
     Category |-> None,
     Nodes |-> [kind |-> "absent", items |-> <<>>],
     Connectors |-> [kind |-> "absent", len |-> 0],
     View |-> [has |-> FALSE, X |-> 0, Y |-> 0, Zoom |-> 1]]
\* a file whose JSON has the key "Name" with an empty string for value
EmptyNameFile ==
    [stem |-> <<"b", "l", "a", "n", "k">>,
     loads |-> TRUE,
     Name |-> Some(<<>>),
     Description |-> Some(<<"N", "o", " ", "n", "a", "m", "e">>),
     Uuid |-> None,
     Author |-> None,
     Category |-> None,
     Nodes |-> [kind |-> "absent", items |-> <<>>],
     Connectors |-> [kind |-> "absent", len |-> 0],
     View |-> [has |-> FALSE, X |-> 0, Y |-> 0, Zoom |-> 1]]
\* the .dyn files that may appear under the graph repository, in the order
\* in which a directory walk lists them
DynPool ==
    <<TestGraphFile, ComplexWallFile, DupGraphFile, BrokenFile, SimpleRectangleFile, BigFile>>

\* further .dyn files, listed by a directory walk after those of DynPool
ExtraPool == <<EmptyNameFile>>

AllFiles == DynPool \o ExtraPool

\* files with five and with six nodes, for the scorer alone
FiveNodesFile ==
    [stem |-> <<"f", "i", "v", "e">>,
     loads |-> TRUE,
     Name |-> None,
     Description |-> None,
     Uuid |-> None,
     Author |-> None,
     Category |-> None,
     Nodes |-> [kind |-> "list",
                items |-> <<DictNode(Some(<<"L", "i", "n", "e">>), Some(<<"G", "e", "o", "m", "e", "t", "r", "y", ".", "L", "i", "n", "e">>), None),
                         DictNode(Some(<<"L", "i", "n", "e">>), Some(<<"G", "e", "o", "m", "e", "t", "r", "y", ".", "L", "i", "n", "e">>), None),
                         DictNode(Some(<<"L", "i", "n", "e">>), Some(<<"G", "e", "o", "m", "e", "t", "r", "y", ".", "L", "i", "n", "e">>), None),
                         DictNode(Some(<<"L", "i", "n", "e">>), Some(<<"G", "e", "o", "m", "e", "t", "r", "y", ".", "L", "i", "n", "e">>), None),
                         DictNode(Some(<<"L", "i", "n", "e">>), Some(<<"G", "e", "o", "m", "e", "t", "r", "y", ".", "L", "i", "n", "e">>), None)>>],
     Connectors |-> [kind |-> "absent", len |-> 0],
     View |-> [has |-> FALSE, X |-> 0, Y |-> 0, Zoom |-> 1]]

SixNodesFile ==
    [stem |-> <<"s", "i", "x">>,
     loads |-> TRUE,
     Name |-> None,
     Description |-> None,
     Uuid |-> None,
     Author |-> None,
     Category |-> None,
     Nodes |-> [kind |-> "list",
                items |-> <<DictNode(Some(<<"L", "i", "n", "e">>), Some(<<"G", "e", "o", "m", "e", "t", "r", "y", ".", "L", "i", "n", "e">>), None),
                         DictNode(Some(<<"L", "i", "n", "e">>), Some(<<"G", "e", "o", "m", "e", "t", "r", "y", ".", "L", "i", "n", "e">>), None),
                         DictNode(Some(<<"L", "i", "n", "e">>), Some(<<"G", "e", "o", "m", "e", "t", "r", "y", ".", "L", "i", "n", "e">>), None),
                         DictNode(Some(<<"L", "i", "n", "e">>), Some(<<"G", "e", "o", "m", "e", "t", "r", "y", ".", "L", "i", "n", "e">>), None),
                         DictNode(Some(<<"L", "i", "n", "e">>), Some(<<"G", "e", "o", "m", "e", "t", "r", "y", ".", "L", "i", "n", "e">>), None),
                         DictNode(Some(<<"L", "i", "n", "e">>), Some(<<"G", "e", "o", "m", "e", "t", "r", "y", ".", "L", "i", "n", "e">>), None)>>],
     Connectors |-> [kind |-> "absent", len |-> 0],
     View |-> [has |-> FALSE, X |-> 0, Y |-> 0, Zoom |-> 1]]

BoundaryPool == <<FiveNodesFile, SixNodesFile>>

\* the documentation tree, in directory-walk order
DocTree ==
    <<[stem |-> <<"n", "o", "t", "e", "s">>, ext |-> <<".", "t", "x", "t">>, reads |-> TRUE,
       content |-> <<"w", "a", "l", "l", "s">>],
      [stem |-> <<"l", "o", "c", "k", "e", "d">>, ext |-> <<".", "m", "d">>, reads |-> FALSE,
       content |-> <<>>],
      [stem |-> <<"r", "e", "a", "d", "m", "e">>, ext |-> <<".", "m", "d">>, reads |-> TRUE,
       content |-> <<>>]>>

\* graph_repo_path and docs_path given to GraphCatalog
GraphRepoPath == <<"r", "e", "p", "o">>

DocsPath == <<"d", "o", "c", "s">>

\* the queries given to recommend, search_graphs and _score_graph
Queries ==
    {<<>>,
     <<"s", "i", "m", "p", "l", "e">>,
     <<"S", "i", "m", "p", "l", "e", " ", "R", "e", "c", "t", "a", "n", "g", "l", "e">>,
     <<"r", "e", "c", "t", "a", "n", "g", "l", "e", " ", "s", "i", "m", "p", "l", "e">>,
     <<"r", "e", "c", "t", "a", "n", "g", "l", "e">>,
     <<"r", "e", "c", "t", "a", "n", "g", "l", "e", " ", "r", "e", "c", "t", "a", "n", "g", "l", "e">>,
     <<"g", "r", "a", "p", "h">>,
     <<"s", "i", "m", "p", "l", "e", " ", "g", "r", "a", "p", "h">>,
     <<"c", "o", "m", "p", "l", "e", "x", " ", "w", "a", "l", "l">>,
     <<"T", "E", "S", "T">>,
     <<"R", "e", "c", "t", "a", "n", "g", "l", "e", " ", "C", "r", "e", "a", "t", "e", "s">>,
     <<"s", "i", "m", "p", "l", "e", " ", "g", "e", "o", "m", "e", "t", "r", "y", " ", "r", "e", "c", "t", "a", "n", "g", "l", "e">>,
     <<"z", "z", "z">>}

\* further queries for the scorer: words of both keyword lists, and one of
\* them inside a longer word
BonusQueries ==
    {<<"q", "u", "i", "c", "k", " ", "d", "e", "t", "a", "i", "l", "e", "d", " ", "w", "a", "l", "l">>,
     <<"A", "d", "v", "a", "n", "c", "e", "d", " ", "l", "i", "n", "e", "s">>,
     <<"s", "i", "m", "p", "l", "e", "s", "t">>}

Names ==
    {<<"T", "e", "s", "t", " ", "G", "r", "a", "p", "h">>,
     <<"t", "e", "s", "t", " ", "g", "r", "a", "p", "h">>,
     <<"T", "E", "S", "T", " ", "G", "R", "A", "P", "H">>,
     <<"s", "i", "m", "p", "l", "e", " ", "r", "e", "c", "t", "a", "n", "g", "l", "e">>,
     <<"b", "i", "g">>,
     <<"T", "e", "s", "t">>,
     <<"m", "i", "s", "s", "i", "n", "g">>}

(***************************************************************************)
(* parser.py                                                               *)
(***************************************************************************)
\* Path / name, as a str
PathJoin(dir, filename) == dir \o <<"/">> \o filename

\* the node_info dicts of the entries of Nodes that are objects
RECURSIVE NodeInfos(_)
NodeInfos(items) ==
    IF items = <<>> THEN <<>>
    ELSE LET node == Head(items)
             rest == NodeInfos(Tail(items))
         IN  IF node.dict
             THEN <<[name |-> Get(node.Name, <<>>),
                     type |-> Get(node.ConcreteType, <<>>),
                     id |-> Get(node.Id, <<>>)]>> \o rest
             ELSE rest

\* DynParser.parse_dyn_file: <<>> is None, <<metadata>> a parsed file
ParseDynFile(dir, f) ==
    IF ~f.loads THEN <<>>
    ELSE LET filename == f.stem \o <<".", "d", "y", "n">>
             metadata ==
                 [filepath |-> PathJoin(dir, filename),
                  filename |-> filename,
                  name |-> Get(f.Name, f.stem),
                  description |-> Get(f.Description, <<>>),
                  uuid |-> Get(f.Uuid, <<>>),
                  author |-> Get(f.Author, <<>>),
                  category |-> Get(f.Category,
                      <<"U", "n", "c", "a", "t", "e", "g", "o", "r", "i", "z", "e", "d">>),
                  nodes |-> IF f.Nodes.kind = "list" THEN NodeInfos(f.Nodes.items) ELSE <<>>,
                  node_count |-> IF f.Nodes.kind = "list" THEN Len(f.Nodes.items) ELSE 0,
                  connector_count |-> IF f.Connectors.kind = "list" THEN f.Connectors.len ELSE 0]
         IN  IF f.View.has
             THEN <<metadata @@ [view |-> [x |-> f.View.X, y |-> f.View.Y, zoom |-> f.View.Zoom]]>>
             ELSE <<metadata>>

\* DynParser.parse_documentation: <<>> is the empty dict
ParseDocumentation(dir, d) ==
    IF ~d.reads THEN <<>>
    ELSE <<[filepath |-> PathJoin(dir, d.stem \o d.ext),
            filename |-> d.stem \o d.ext,
            content |-> d.content,
            size |-> Len(d.content)]>>

(***************************************************************************)
(* recommender.py: _score_graph                                            *)
(***************************************************************************)
complexity_keywords ==
    <<<<"c", "o", "m", "p", "l", "e", "x">>,
      <<"a", "d", "v", "a", "n", "c", "e", "d">>,
      <<"d", "e", "t", "a", "i", "l", "e", "d">>,
      <<"c", "o", "m", "p", "r", "e", "h", "e", "n", "s", "i", "v", "e">>>>

simplicity_keywords ==
    <<<<"s", "i", "m", "p", "l", "e">>,
      <<"b", "a", "s", "i", "c">>,
      <<"e", "a", "s", "y">>,
      <<"q", "u", "i", "c", "k">>,
      <<"m", "i", "n", "i", "m", "a", "l">>>>

\* any(kw in intent_lower for kw in keywords)
AnyKeyword(keywords, intent_lower) ==
    \E i \in 1..Len(keywords) : IsSubstr(keywords[i], intent_lower)

\* mutant of NodeMatch: the break is taken after the first word, matched or not
NodeMatch_BreakAlways(node, word_order, i) ==
    IF i > Len(word_order) THEN 0
    ELSE IF \/ IsSubstr(word_order[i], Lower(node.name))
            \/ IsSubstr(word_order[i], Lower(node.type))
         THEN 1
         ELSE 0

\* the inner loop over intent_words for one node, visiting the words in the
\* order word_order: 1 when the loop reaches a word found in the node's name
\* or type (node_matches += 1; break), 0 when it runs to its end
RECURSIVE NodeMatch(_, _, _)
NodeMatch(node, word_order, i) ==
    IF i > Len(word_order) THEN 0
    ELSE IF \/ IsSubstr(word_order[i], Lower(node.name))
            \/ IsSubstr(word_order[i], Lower(node.type))
         THEN 1
         ELSE NodeMatch(node, word_order, i + 1)

\* the outer loop as it would be if the inner loop had no break: a node
\* counts once for each word found in it
NodeMatches_PerWord(nodes, word_order) ==
    LET hits(node) ==
            Cardinality({i \in 1..Len(word_order) :
                            \/ IsSubstr(word_order[i], Lower(node.name))
                            \/ IsSubstr(word_order[i], Lower(node.type))})
        sum[k \in 0..Len(nodes)] == IF k = 0 THEN 0 ELSE sum[k - 1] + hits(nodes[k])
    IN  sum[Len(nodes)]

\* the outer loop over graph['nodes']
RECURSIVE NodeMatches(_, _)
NodeMatches(nodes, word_order) ==
    IF nodes = <<>> THEN 0
    ELSE NodeMatch(Head(nodes), word_order, 1) + NodeMatches(Tail(nodes), word_order)

\* score = 0.0; reasons = []
NoScore == [score |-> 0, reasons |-> <<>>]

\* "Score name match": acc is (score, reasons) before the block
NameMatch(acc, graph, intent_words) ==
    LET name_lower == Lower(graph.name)
        name_words == WordSet(name_lower)
        name_overlap == Cardinality(intent_words \cap name_words)
    IN  IF name_overlap > 0
        THEN [score |-> acc.score + name_overlap * 10,
              reasons |-> Append(acc.reasons, <<"name matches '">> \o graph.name \o <<"'">>)]
        ELSE acc

\* mutant of ExactNameBonus: the bonus is added without its reason
ExactNameBonus_NoReason(acc, graph, intent_lower) ==
    LET name_lower == Lower(graph.name)
    IN  IF IsSubstr(intent_lower, name_lower) \/ IsSubstr(name_lower, intent_lower)
        THEN [score |-> acc.score + 20, reasons |-> acc.reasons]
        ELSE acc

\* "Exact name match bonus"
ExactNameBonus(acc, graph, intent_lower) ==
    LET name_lower == Lower(graph.name)
    IN  IF IsSubstr(intent_lower, name_lower) \/ IsSubstr(name_lower, intent_lower)
        THEN [score |-> acc.score + 20,
              reasons |-> Append(acc.reasons, <<"name closely matches query">>)]
        ELSE acc

\* "Score description match"
DescriptionMatch(acc, graph, intent_words) ==
    LET description_lower == Lower(graph.description)
    IN  IF description_lower # <<>>
        THEN LET desc_words == WordSet(description_lower)
                 desc_overlap == Cardinality(intent_words \cap desc_words)
             IN  IF desc_overlap > 0
                 THEN [score |-> acc.score + desc_overlap * 5,
                       reasons |-> Append(acc.reasons,
                                          <<"description contains relevant keywords">>)]
                 ELSE acc
        ELSE acc

\* mutant of CategoryMatch: the weight of the description block
CategoryMatch_Weight5(acc, graph, intent_words) ==
    LET category_lower == Lower(graph.category)
        category_words == WordSet(category_lower)
        category_overlap == Cardinality(intent_words \cap category_words)
    IN  IF category_overlap > 0
        THEN [score |-> acc.score + category_overlap * 5,
              reasons |-> Append(acc.reasons,
                                 <<"category '">> \o graph.category \o <<"' matches">>)]
        ELSE acc

\* "Score category match"
CategoryMatch(acc, graph, intent_words) ==
    LET category_lower == Lower(graph.category)
        category_words == WordSet(category_lower)
        category_overlap == Cardinality(intent_words \cap category_words)
    IN  IF category_overlap > 0
        THEN [score |-> acc.score + category_overlap * 7,
              reasons |-> Append(acc.reasons,
                                 <<"category '">> \o graph.category \o <<"' matches">>)]
        ELSE acc

\* "Score node type matches"
NodeTypeMatch(acc, graph, word_order) ==
    LET node_matches == NodeMatches(graph.nodes, word_order)
    IN  IF node_matches > 0
        THEN [score |-> acc.score + node_matches * 3,
              reasons |-> Append(acc.reasons,
                                 <<"contains ">> \o IntStr(node_matches)
                                     \o <<" relevant node(s)">>)]
        ELSE acc

\* the complexity bonus as it would be if ten nodes were enough
ComplexityBonus_FromTen(acc, graph, intent_lower) ==
    IF AnyKeyword(complexity_keywords, intent_lower) /\ graph.node_count >= 10
    THEN [score |-> acc.score + 5,
          reasons |-> Append(acc.reasons,
                             <<"complex graph with ">> \o IntStr(graph.node_count)
                                 \o <<" nodes">>)]
    ELSE acc

\* "Complexity bonus for certain keywords"
ComplexityBonus(acc, graph, intent_lower) ==
    IF AnyKeyword(complexity_keywords, intent_lower) /\ graph.node_count > 10
    THEN [score |-> acc.score + 5,
          reasons |-> Append(acc.reasons,
                             <<"complex graph with ">> \o IntStr(graph.node_count)
                                 \o <<" nodes">>)]
    ELSE acc

\* mutant of SimplicityBonus: the query has to start with the keyword
SimplicityBonus_StartsWith(acc, graph, intent_lower) ==
    IF /\ \E i \in 1..Len(simplicity_keywords) :
              /\ Len(simplicity_keywords[i]) <= Len(intent_lower)
              /\ SubSeq(intent_lower, 1, Len(simplicity_keywords[i])) = simplicity_keywords[i]
       /\ graph.node_count <= 5
    THEN [score |-> acc.score + 5,
          reasons |-> Append(acc.reasons,
                             <<"simple graph with ">> \o IntStr(graph.node_count)
                                 \o <<" nodes">>)]
    ELSE acc

\* "Simplicity bonus for certain keywords"
SimplicityBonus(acc, graph, intent_lower) ==
    IF AnyKeyword(simplicity_keywords, intent_lower) /\ graph.node_count <= 5
    THEN [score |-> acc.score + 5,
          reasons |-> Append(acc.reasons,
                             <<"simple graph with ">> \o IntStr(graph.node_count)
                                 \o <<" nodes">>)]
    ELSE acc

\* "Generate explanation"
Explanation(reasons) ==
    IF reasons # <<>>
    THEN <<"Recommended because ">> \o Join(<<", ">>, reasons) \o <<".">>
    ELSE <<"No specific match found.">>

\* _score_graph as it would be with the category block ahead of the
\* description block
ScoreGraph_CategoryFirst(graph, user_intent, word_order) ==
    LET intent_lower == Lower(user_intent)
        intent_words == WordSet(intent_lower)
        a1 == NameMatch(NoScore, graph, intent_words)
        a2 == ExactNameBonus(a1, graph, intent_lower)
        a3 == CategoryMatch(a2, graph, intent_words)
        a4 == DescriptionMatch(a3, graph, intent_words)
        a5 == NodeTypeMatch(a4, graph, word_order)
        a6 == ComplexityBonus(a5, graph, intent_lower)
        a7 == SimplicityBonus(a6, graph, intent_lower)
    IN  [score |-> a7.score, explanation |-> Explanation(a7.reasons)]

\* RecommendationEngine._score_graph.  word_order is the order in which the
\* interpreter iterates the set intent_words.
ScoreGraph(graph, user_intent, word_order) ==
    LET intent_lower == Lower(user_intent)
        intent_words == WordSet(intent_lower)
        a1 == NameMatch(NoScore, graph, intent_words)
        a2 == ExactNameBonus(a1, graph, intent_lower)
        a3 == DescriptionMatch(a2, graph, intent_words)
        a4 == CategoryMatch(a3, graph, intent_words)
        a5 == NodeTypeMatch(a4, graph, word_order)
        a6 == ComplexityBonus(a5, graph, intent_lower)
        a7 == SimplicityBonus(a6, graph, intent_lower)
    IN  [score |-> a7.score, explanation |-> Explanation(a7.reasons)]

(***************************************************************************)
(* recommender.py: recommend                                               *)
(***************************************************************************)
\* the loop that scores each graph and keeps those with score > 0
RECURSIVE ScoredGraphs(_, _, _)
ScoredGraphs(gs, user_intent, word_order) ==
    IF gs = <<>> THEN <<>>
    ELSE LET r == ScoreGraph(Head(gs), user_intent, word_order)
             rest == ScoredGraphs(Tail(gs), user_intent, word_order)
         IN  IF r.score > 0
             THEN <<[graph |-> Head(gs), score |-> r.score, explanation |-> r.explanation]>> \o rest
             ELSE rest

\* mutant of InsertByScore: x goes in front of the elements of equal score
RECURSIVE InsertByScore_Unstable(_, _)
InsertByScore_Unstable(sorted, x) ==
    IF sorted = <<>> THEN <<x>>
    ELSE IF Head(sorted).score > x.score
         THEN <<Head(sorted)>> \o InsertByScore_Unstable(Tail(sorted), x)
         ELSE <<x>> \o sorted

\* where list.sort(key=score, reverse=True) puts x among the already sorted
\* elements: behind every element whose score is not smaller
RECURSIVE InsertByScore(_, _)
InsertByScore(sorted, x) ==
    IF sorted = <<>> THEN <<x>>
    ELSE IF Head(sorted).score >= x.score
         THEN <<Head(sorted)>> \o InsertByScore(Tail(sorted), x)
         ELSE <<x>> \o sorted

\* scored_graphs.sort(key=lambda x: x[1], reverse=True)
RECURSIVE SortByScoreDesc(_)
SortByScoreDesc(xs) ==
    IF xs = <<>> THEN <<>>
    ELSE InsertByScore(SortByScoreDesc(SubSeq(xs, 1, Len(xs) - 1)), xs[Len(xs)])

\* mutant of Truncate: one element too many
Truncate_OffByOne(xs, n) == SubSeq(xs, 1, IF n + 1 < Len(xs) THEN n + 1 ELSE Len(xs))

\* xs[:n] for n >= 0
Truncate(xs, n) == SubSeq(xs, 1, IF n < Len(xs) THEN n ELSE Len(xs))

\* RecommendationEngine.recommend
Recommend(gs, user_intent, max_results, word_order) ==
    IF gs = <<>> THEN <<>>
    ELSE Truncate(SortByScoreDesc(ScoredGraphs(gs, user_intent, word_order)), max_results)

(***************************************************************************)
(* recommender.py: explain_recommendation                                  *)
(***************************************************************************)
\* f"{score:.1f}" for a score that is a whole number, as every score is
FormatOneDecimal(score) == IntStr(score) \o <<".", "0">>

\* explain_recommendation as it would be if it printed the description as
\* it is
ExplainRecommendation_RawDescription(graph, user_intent, word_order) ==
    LET r == ScoreGraph(graph, user_intent, word_order)
        details ==
            << <<"Graph: ">> \o graph.name,
               <<"Score: ">> \o FormatOneDecimal(r.score),
               <<"Explanation: ">> \o r.explanation,
               <<>>,
               <<"Graph Details:">>,
               <<"  - Description: ">> \o graph.description,
               <<"  - Category: ">> \o graph.category,
               <<"  - Nodes: ">> \o IntStr(graph.node_count),
               <<"  - Connectors: ">> \o IntStr(graph.connector_count),
               <<"  - Path: ">> \o graph.filepath >>
    IN  Join(<<"\n">>, details)

\* RecommendationEngine.explain_recommendation
ExplainRecommendation(graph, user_intent, word_order) ==
    LET r == ScoreGraph(graph, user_intent, word_order)
        details ==
            << <<"Graph: ">> \o graph.name,
               <<"Score: ">> \o FormatOneDecimal(r.score),
               <<"Explanation: ">> \o r.explanation,
               <<>>,
               <<"Graph Details:">>,
               <<"  - Description: ">> \o
                   (IF graph.description # <<>> THEN graph.description
                    ELSE <<"N", "/", "A">>),
               <<"  - Category: ">> \o graph.category,
               <<"  - Nodes: ">> \o IntStr(graph.node_count),
               <<"  - Connectors: ">> \o IntStr(graph.connector_count),
               <<"  - Path: ">> \o graph.filepath >>
    IN  Join(<<"\n">>, details)

(***************************************************************************)
(* catalog.py: read operations                                             *)
(***************************************************************************)
\* ' '.join([node['name'] for node in graph['nodes']])
NodeNames(nodes) == Join(<<" ">>, [i \in 1..Len(nodes) |-> nodes[i].name])

\* the searchable_text of search_graphs
SearchableText(graph) ==
    Lower(graph.name \o <<" ">> \o graph.description \o <<" ">> \o graph.category
          \o <<" ">> \o NodeNames(graph.nodes))

\* mutant of SearchGraphs: the query is not lower-cased
RECURSIVE SearchGraphs_CaseSensitive(_, _)
SearchGraphs_CaseSensitive(gs, query) ==
    IF gs = <<>> THEN <<>>
    ELSE LET rest == SearchGraphs_CaseSensitive(Tail(gs), query)
         IN  IF IsSubstr(query, SearchableText(Head(gs)))
             THEN <<Head(gs)>> \o rest
             ELSE rest

\* GraphCatalog.search_graphs
RECURSIVE SearchGraphs(_, _)
SearchGraphs(gs, query) ==
    IF gs = <<>> THEN <<>>
    ELSE LET rest == SearchGraphs(Tail(gs), query)
         IN  IF IsSubstr(Lower(query), SearchableText(Head(gs)))
             THEN <<Head(gs)>> \o rest
             ELSE rest

\* mutant of GetGraphByName: a later graph of the same name replaces the earlier
RECURSIVE GetGraphByName_Last(_, _)
GetGraphByName_Last(gs, name) ==
    IF gs = <<>> THEN <<>>
    ELSE IF Lower(gs[Len(gs)].name) = Lower(name) THEN <<gs[Len(gs)]>>
    ELSE GetGraphByName_Last(SubSeq(gs, 1, Len(gs) - 1), name)

\* GraphCatalog.get_graph_by_name: <<>> is None, <<graph>> the graph found
RECURSIVE GetGraphByName(_, _)
GetGraphByName(gs, name) ==
    IF gs = <<>> THEN <<>>
    ELSE IF Lower(Head(gs).name) = Lower(name) THEN <<Head(gs)>>
    ELSE GetGraphByName(Tail(gs), name)

(***************************************************************************)
(* catalog.py: build_catalog                                               *)
(***************************************************************************)
\* list(graph_repo_path.rglob('*.dyn')): the files present (given by their
\* positions in DynPool), in walk order
DynFiles(present) ==
    LET listed == SelectSeq([i \in 1..Len(AllFiles) |-> i], LAMBDA i : i \in present)
    IN  [j \in 1..Len(listed) |-> AllFiles[listed[j]]]

\* the loop as it would be if a file that fails to parse ended the walk
RECURSIVE ParseAll_StopAtFailure(_, _)
ParseAll_StopAtFailure(gs, dyn_files) ==
    IF dyn_files = <<>> THEN gs
    ELSE LET metadata == ParseDynFile(GraphRepoPath, Head(dyn_files))
         IN  IF metadata = <<>> THEN gs
             ELSE ParseAll_StopAtFailure(gs \o metadata, Tail(dyn_files))

\* the loop "for dyn_file in dyn_files", appending to gs what parses
RECURSIVE ParseAll(_, _)
ParseAll(gs, dyn_files) ==
    IF dyn_files = <<>> THEN gs
    ELSE ParseAll(gs \o ParseDynFile(GraphRepoPath, Head(dyn_files)), Tail(dyn_files))

\* list(docs_path.rglob('*' + ext))
Rglob(tree, ext) == SelectSeq(tree, LAMBDA d : d.ext = ext)

\* the loop "for doc_file in doc_files", appending to ds what parses
RECURSIVE ParseDocs(_, _)
ParseDocs(ds, doc_files) ==
    IF doc_files = <<>> THEN ds
    ELSE ParseDocs(ds \o ParseDocumentation(DocsPath, Head(doc_files)), Tail(doc_files))

\* mutant of BuildCatalog: graphs is cleared only after the check of the path
BuildCatalog_ClearLate(gs, ds, repo_exists, repo_files, docs_set, docs_exists) ==
    IF ~repo_exists
    THEN [graphs |-> gs, docs |-> ds, count |-> 0]
    ELSE LET new_graphs == ParseAll(<<>>, DynFiles(repo_files))
             new_docs ==
                 IF docs_set /\ docs_exists
                 THEN ParseDocs(ds, Rglob(DocTree, <<".", "m", "d">>)
                                        \o Rglob(DocTree, <<".", "t", "x", "t">>))
                 ELSE ds
         IN  [graphs |-> new_graphs, docs |-> new_docs, count |-> Len(new_graphs)]

\* GraphCatalog.build_catalog on a catalog holding (gs, ds), with the disk as
\* given: the new graphs and docs and the returned count
BuildCatalog(gs, ds, repo_exists, repo_files, docs_set, docs_exists) ==
    IF ~repo_exists
    THEN [graphs |-> <<>>, docs |-> ds, count |-> 0]
    ELSE LET new_graphs == ParseAll(<<>>, DynFiles(repo_files))
             new_docs ==
                 IF docs_set /\ docs_exists
                 THEN ParseDocs(ds, Rglob(DocTree, <<".", "m", "d">>)
                                        \o Rglob(DocTree, <<".", "t", "x", "t">>))
                 ELSE ds
         IN  [graphs |-> new_graphs, docs |-> new_docs, count |-> Len(new_graphs)]

(***************************************************************************)
(* executor.py.  Messages are strs, one character per element.             *)
(***************************************************************************)
\* f"{n}" for an int
IntText(n) == IF n < 0 THEN <<"-">> \o IntStr(0 - n) ELSE IntStr(n)

\* the dynamo_cli_path a configured executor is given
CliPath == <<"d", "y", "n", "a", "m", "o">>

\* DynamoExecutor(dynamo_cli_path, allow_execution)
DynamoExecutor(dynamo_cli_path, allow_execution) ==
    [dynamo_cli_path |-> dynamo_cli_path, allow_execution |-> allow_execution]

\* what subprocess.run may do once it is called: return a CompletedProcess
\* or raise
Completed(returncode, stdout, stderr) ==
    [kind |-> "completed", returncode |-> returncode, stdout |-> stdout, stderr |-> stderr]

Raises(class, text) == [kind |-> "raises", class |-> class, text |-> text]

Outcomes ==
    {Completed(0, <<"o", "k">>, <<>>),
     Completed(1, <<>>, <<"b", "a", "d">>),
     Completed(0 - 9, <<>>, <<>>),
     Raises("TimeoutExpired", <<"t", "i", "m", "e", "d", " ", "o", "u", "t">>),
     Raises("PermissionError", <<"d", "e", "n", "i", "e", "d">>),
     Raises("OSError", <<>>)}

\* the classes "except Exception" catches
ExceptionClasses == {"TimeoutExpired", "PermissionError", "OSError"}

\* DynamoExecutor.can_execute as it would be without the check that the
\* executable exists
CanExecute_PathOnly(executor, cli_exists) ==
    IF ~executor.allow_execution THEN FALSE
    ELSE IF executor.dynamo_cli_path = <<>> THEN FALSE
    ELSE TRUE

\* DynamoExecutor.can_execute; cli_exists is Path(dynamo_cli_path).exists()
CanExecute(executor, cli_exists) ==
    IF ~executor.allow_execution THEN FALSE
    ELSE IF executor.dynamo_cli_path = <<>> THEN FALSE
    ELSE IF ~cli_exists THEN FALSE
    ELSE TRUE

DisabledMessage ==
    <<"E", "x", "e", "c", "u", "t", "i", "o", "n", " ", "i", "s", " ", "d",
      "i", "s", "a", "b", "l", "e", "d", ".", " ", "S", "e", "t", " ", "A",
      "L", "L", "O", "W", "_", "E", "X", "E", "C", "U", "T", "I", "O", "N",
      "=", "t", "r", "u", "e", " ", "i", "n", " ", ".", "e", "n", "v", " ",
      "t", "o", " ", "e", "n", "a", "b", "l", "e", ".">>

ConsentMessage ==
    <<"E", "x", "e", "c", "u", "t", "i", "o", "n", " ", "r", "e", "q", "u",
      "i", "r", "e", "s", " ", "e", "x", "p", "l", "i", "c", "i", "t", " ",
      "c", "o", "n", "s", "e", "n", "t", ".", " ", "U", "s", "e", " ", "-",
      "-", "r", "u", "n", " ", "f", "l", "a", "g", " ", "t", "o", " ", "e",
      "x", "e", "c", "u", "t", "e", ".">>

NotConfiguredMessage ==
    <<"E", "x", "e", "c", "u", "t", "i", "o", "n", " ", "n", "o", "t", " ",
      "c", "o", "n", "f", "i", "g", "u", "r", "e", "d", ".", " ", "C", "h",
      "e", "c", "k", " ", "D", "Y", "N", "A", "M", "O", "_", "C", "L", "I",
      "_", "P", "A", "T", "H", " ", "i", "n", " ", ".", "e", "n", "v">>

NotFoundMessage(graph_path) ==
    <<"G", "r", "a", "p", "h", " ", "f", "i", "l", "e", " ", "n", "o", "t",
      " ", "f", "o", "u", "n", "d", ":", " ">> \o graph_path

GraphQuoted(graph) == <<"G", "r", "a", "p", "h", " ", "'">> \o graph.name \o <<"'">>

SuccessMessage(graph) ==
    GraphQuoted(graph) \o
    <<" ", "e", "x", "e", "c", "u", "t", "e", "d", " ", "s", "u", "c", "c",
      "e", "s", "s", "f", "u", "l", "l", "y">>

FailedMessage(graph, returncode) ==
    GraphQuoted(graph) \o
    <<" ", "e", "x", "e", "c", "u", "t", "i", "o", "n", " ", "f", "a", "i",
      "l", "e", "d", " ", "w", "i", "t", "h", " ", "c", "o", "d", "e", " ">> \o IntText(returncode)

ErrorMessage(graph, e) ==
    GraphQuoted(graph) \o
    <<" ", "e", "x", "e", "c", "u", "t", "i", "o", "n", " ", "e", "r", "r",
      "o", "r", ":", " ">> \o e

\* the timeout message as it would be if it reused the text of the error
\* message
TimedOutMessage_AsError(graph) ==
    GraphQuoted(graph) \o
    <<" ", "e", "x", "e", "c", "u", "t", "i", "o", "n", " ", "e", "r", "r",
      "o", "r", ":", " ">>

TimedOutMessage(graph) ==
    GraphQuoted(graph) \o
    <<" ", "e", "x", "e", "c", "u", "t", "i", "o", "n", " ", "t", "i", "m",
      "e", "d", " ", "o", "u", "t">>

\* the result dict execute_graph starts from
BlankResult ==
    [success |-> FALSE, executed |-> FALSE, message |-> <<>>, output |-> <<>>,
     error |-> <<>>]

\* what execute_graph hands to its caller: a result dict, unless an
\* exception leaves the function
Returns(result, launched) == [raised |-> FALSE, launched |-> launched, result |-> result]

Propagates(class) == [raised |-> TRUE, launched |-> TRUE, class |-> class]

\* the body of the try block once subprocess.run has returned process
AfterRun(result, graph, process) ==
    LET success == process.returncode = 0
    IN  [result EXCEPT !.executed = TRUE,
                       !.output = process.stdout,
                       !.error = process.stderr,
                       !.success = success,
                       !.message = IF success THEN SuccessMessage(graph)
                                   ELSE FailedMessage(graph, process.returncode)]

\* the except clauses as they would be without "except Exception"
Handle_TimeoutOnly(result, graph, thrown) ==
    IF thrown.class = "TimeoutExpired"
    THEN Returns([result EXCEPT !.message = TimedOutMessage(graph)], TRUE)
    ELSE Propagates(thrown.class)

\* the except clauses of execute_graph, for an exception thrown raised in
\* the try block
Handle(result, graph, thrown) ==
    IF thrown.class = "TimeoutExpired"
    THEN Returns([result EXCEPT !.message = TimedOutMessage(graph)], TRUE)
    ELSE IF thrown.class \in ExceptionClasses
    THEN Returns([result EXCEPT !.message = ErrorMessage(graph, thrown.text)], TRUE)
    ELSE Propagates(thrown.class)

\* execute_graph as it would be with the check of the run flag ahead of the
\* check of allow_execution
ExecuteGraph_ConsentFirst(executor, cli_exists, graph, graph_exists, run_flag, outcome) ==
    LET result == BlankResult
    IN  IF ~run_flag
        THEN Returns([result EXCEPT !.message = ConsentMessage], FALSE)
        ELSE IF ~executor.allow_execution
        THEN Returns([result EXCEPT !.message = DisabledMessage], FALSE)
        ELSE IF ~CanExecute(executor, cli_exists)
        THEN Returns([result EXCEPT !.message = NotConfiguredMessage], FALSE)
        ELSE IF ~graph_exists
        THEN Returns([result EXCEPT !.message = NotFoundMessage(graph.filepath)], FALSE)
        ELSE IF outcome.kind = "completed"
        THEN Returns(AfterRun(result, graph, outcome), TRUE)
        ELSE Handle(result, graph, outcome)

\* DynamoExecutor.execute_graph, with no logger set.  graph_exists is
\* Path(graph['filepath']).exists() and outcome is what subprocess.run
\* does if it is called.
ExecuteGraph(executor, cli_exists, graph, graph_exists, run_flag, outcome) ==
    LET result == BlankResult
    IN  IF ~executor.allow_execution
        THEN Returns([result EXCEPT !.message = DisabledMessage], FALSE)
        ELSE IF ~run_flag
        THEN Returns([result EXCEPT !.message = ConsentMessage], FALSE)
        ELSE IF ~CanExecute(executor, cli_exists)
        THEN Returns([result EXCEPT !.message = NotConfiguredMessage], FALSE)
        ELSE IF ~graph_exists
        THEN Returns([result EXCEPT !.message = NotFoundMessage(graph.filepath)], FALSE)
        ELSE IF outcome.kind = "completed"
        THEN Returns(AfterRun(result, graph, outcome), TRUE)
        ELSE Handle(result, graph, outcome)

(***************************************************************************)
(* State                                                                   *)
(***************************************************************************)
VARIABLES
    repoExists,    \* graph_repo_path.exists()
    repoFiles,     \* the files under graph_repo_path: their positions in DynPool
    docsPathSet,   \* whether GraphCatalog was given a docs_path
    docsExists,    \* docs_path.exists()
    graphs,        \* GraphCatalog.graphs
    docs,          \* GraphCatalog.docs
    ret,           \* the call that has just returned, with its arguments and result
    seen,          \* an earlier _score_graph call, kept for comparison
    executor,      \* the DynamoExecutor: its dynamo_cli_path and allow_execution
    cliExists      \* Path(CliPath).exists()

vars ==
    <<repoExists, repoFiles, docsPathSet, docsExists, graphs, docs, ret, seen, executor,
      cliExists>>

disk == <<repoExists, repoFiles, docsExists>>

\* no call has returned since the caller took the last result
NoCall == [op |-> "none"]

\* GraphCatalog(graph_repo_path) on a disk without the repository
Init ==
    /\ repoExists = FALSE
    /\ repoFiles = {}
    /\ docsPathSet = FALSE
    /\ docsExists = FALSE
    /\ graphs = <<>>
    /\ docs = <<>>
    /\ ret = NoCall
    /\ seen = NoCall
    /\ executor = DynamoExecutor(<<>>, FALSE)
    /\ cliExists = FALSE

\* GraphCatalog(graph_repo_path, docs_path), with or without a docs_path
InitCatalog ==
    /\ repoExists = FALSE
    /\ repoFiles = {}
    /\ docsPathSet \in BOOLEAN
    /\ docsExists = FALSE
    /\ graphs = <<>>
    /\ docs = <<>>
    /\ ret = NoCall
    /\ seen = NoCall
    /\ executor = DynamoExecutor(<<>>, FALSE)
    /\ cliExists = FALSE

(***************************************************************************)
(* The disk changes between calls                                          *)
(***************************************************************************)
CreateRepo ==
    /\ ret = NoCall
    /\ ~repoExists
    /\ repoExists' = TRUE
    /\ UNCHANGED <<executor, cliExists, repoFiles, docsPathSet, docsExists, graphs, docs, ret, seen>>

RemoveRepo ==
    /\ ret = NoCall
    /\ repoExists
    /\ repoExists' = FALSE
    /\ repoFiles' = {}
    /\ UNCHANGED <<executor, cliExists, docsPathSet, docsExists, graphs, docs, ret, seen>>

AddFile ==
    /\ ret = NoCall
    /\ repoExists
    /\ Cardinality(repoFiles) < MaxFiles
    /\ \E i \in 1..Len(DynPool) :
          /\ i \notin repoFiles
          /\ repoFiles' = repoFiles \cup {i}
    /\ UNCHANGED <<executor, cliExists, repoExists, docsPathSet, docsExists, graphs, docs, ret, seen>>

\* one of the further files appears under the repository
AddExtraFile ==
    /\ ret = NoCall
    /\ repoExists
    /\ Cardinality(repoFiles) < MaxFiles
    /\ \E i \in (Len(DynPool) + 1)..Len(AllFiles) :
          /\ i \notin repoFiles
          /\ repoFiles' = repoFiles \cup {i}
    /\ UNCHANGED <<executor, cliExists, repoExists, docsPathSet, docsExists, graphs, docs, ret, seen>>

RemoveFile ==
    /\ ret = NoCall
    /\ \E i \in repoFiles : repoFiles' = repoFiles \ {i}
    /\ UNCHANGED <<executor, cliExists, repoExists, docsPathSet, docsExists, graphs, docs, ret, seen>>

CreateDocs ==
    /\ ret = NoCall
    /\ ~docsExists
    /\ docsExists' = TRUE
    /\ UNCHANGED <<executor, cliExists, repoExists, repoFiles, docsPathSet, graphs, docs, ret, seen>>

RemoveDocs ==
    /\ ret = NoCall
    /\ docsExists
    /\ docsExists' = FALSE
    /\ UNCHANGED <<executor, cliExists, repoExists, repoFiles, docsPathSet, graphs, docs, ret, seen>>

(***************************************************************************)
(* Calls.  The program is single-threaded: a call returns, the caller      *)
(* takes the result (Return), and only then the next call starts.          *)
(***************************************************************************)
\* catalog.build_catalog(); had is len(graphs) before the call
Rebuild ==
    LET b == BuildCatalog(graphs, docs, repoExists, repoFiles, docsPathSet, docsExists)
    IN  /\ ret = NoCall
        /\ Len(b.docs) <= MaxDocs
        /\ graphs' = b.graphs
        /\ docs' = b.docs
        /\ ret' = [op |-> "build_catalog", count |-> b.count, had |-> Len(graphs)]
        /\ UNCHANGED <<executor, cliExists, repoExists, repoFiles, docsPathSet, docsExists, seen>>

\* catalog.get_all_graphs()
GetAll ==
    /\ ret = NoCall
    /\ ret' = [op |-> "get_all_graphs", result |-> graphs]
    /\ UNCHANGED <<executor, cliExists, disk, docsPathSet, graphs, docs, seen>>

\* catalog.get_graph_by_name(name)
GetByName ==
    /\ ret = NoCall
    /\ \E name \in Names :
          ret' = [op |-> "get_graph_by_name", name |-> name,
                  result |-> GetGraphByName(graphs, name)]
    /\ UNCHANGED <<executor, cliExists, disk, docsPathSet, graphs, docs, seen>>

\* catalog.search_graphs(query)
Search ==
    /\ ret = NoCall
    /\ \E query \in Queries :
          ret' = [op |-> "search_graphs", query |-> query,
                  result |-> SearchGraphs(graphs, query)]
    /\ UNCHANGED <<executor, cliExists, disk, docsPathSet, graphs, docs, seen>>

\* recommend as it would be if it sorted and filtered the catalog's own list
RecommendCall_InPlace ==
    /\ ret = NoCall
    /\ \E user_intent \in Queries, max_results \in 1..MaxK :
          \E word_order \in Orders(WordSet(Lower(user_intent))) :
              LET all == Recommend(graphs, user_intent, Len(graphs), word_order)
              IN  /\ ret' = [op |-> "recommend", query |-> user_intent, k |-> max_results,
                             result |-> Recommend(graphs, user_intent, max_results, word_order)]
                  /\ graphs' = [j \in 1..Len(all) |-> all[j].graph]
    /\ UNCHANGED <<executor, cliExists, disk, docsPathSet, docs, seen>>

\* engine.recommend(user_intent, max_results)
RecommendCall ==
    /\ ret = NoCall
    /\ \E user_intent \in Queries, max_results \in 1..MaxK :
          \E word_order \in Orders(WordSet(Lower(user_intent))) :
              ret' = [op |-> "recommend", query |-> user_intent, k |-> max_results,
                      result |-> Recommend(graphs, user_intent, max_results, word_order)]
    /\ UNCHANGED <<executor, cliExists, disk, docsPathSet, graphs, docs, seen>>

\* engine._score_graph(graph, user_intent) on a graph that parse_dyn_file
\* produces from one of files, for a query of queries; order is the order
\* in which intent_words was iterated
ScoreCallOn(files, queries) ==
    /\ ret = NoCall
    /\ \E i \in 1..Len(files), user_intent \in queries :
          \E word_order \in Orders(WordSet(Lower(user_intent))) :
              /\ ParseDynFile(GraphRepoPath, files[i]) # <<>>
              /\ LET graph == ParseDynFile(GraphRepoPath, files[i])[1]
                     r == ScoreGraph(graph, user_intent, word_order)
                 IN  ret' = [op |-> "_score_graph", graph |-> graph, query |-> user_intent,
                             order |-> word_order, score |-> r.score,
                             explanation |-> r.explanation]
    /\ UNCHANGED <<executor, cliExists, disk, docsPathSet, graphs, docs, seen>>

ScoreCall == ScoreCallOn(DynPool, Queries)

\* the same on the files with five and six nodes too, and for the further
\* queries
ScoreBoundary == ScoreCallOn(DynPool \o BoundaryPool, Queries \cup BonusQueries)

\* engine.explain_recommendation(graph, user_intent) on a record of gs, for
\* a query of queries
ExplainOn(gs, queries) ==
    /\ ret = NoCall
    /\ \E i \in 1..Len(gs), user_intent \in queries :
          \E word_order \in Orders(WordSet(Lower(user_intent))) :
              ret' = [op |-> "explain_recommendation", graph |-> gs[i],
                      query |-> user_intent,
                      result |-> ExplainRecommendation(gs[i], user_intent, word_order)]
    /\ UNCHANGED <<executor, cliExists, disk, docsPathSet, graphs, docs, seen>>

\* on a record of the catalog
ExplainCall == ExplainOn(graphs, Queries)

\* on a record that parse_dyn_file produces from any of the files, and for
\* the further queries too
ExplainAny ==
    ExplainOn(ParseAll(<<>>, AllFiles \o BoundaryPool), Queries \cup BonusQueries)

\* the executable appears at CliPath
InstallCli ==
    /\ ret = NoCall
    /\ ~cliExists
    /\ cliExists' = TRUE
    /\ UNCHANGED <<executor, disk, docsPathSet, graphs, docs, ret, seen>>

RemoveCli ==
    /\ ret = NoCall
    /\ cliExists
    /\ cliExists' = FALSE
    /\ UNCHANGED <<executor, disk, docsPathSet, graphs, docs, ret, seen>>

\* a command builds its executor from DYNAMO_CLI_PATH and ALLOW_EXECUTION
Configure ==
    /\ ret = NoCall
    /\ \E dynamo_cli_path \in {<<>>, CliPath}, allow_execution \in BOOLEAN :
          executor' = DynamoExecutor(dynamo_cli_path, allow_execution)
    /\ executor' # executor
    /\ UNCHANGED <<cliExists, disk, docsPathSet, graphs, docs, ret, seen>>

\* Path(graph['filepath']).exists()
GraphFileExists(graph) ==
    /\ repoExists
    /\ \E i \in repoFiles :
          graph.filepath = PathJoin(GraphRepoPath, AllFiles[i].stem \o <<".", "d", "y", "n">>)

\* subprocess.run was not called
NotRun == [kind |-> "not run"]

\* executor.execute_graph(graph, run_flag) on a record of the catalog;
\* process is what subprocess.run did
ExecuteCall ==
    /\ ret = NoCall
    /\ \E i \in 1..Len(graphs), run_flag \in BOOLEAN, outcome \in Outcomes :
          LET out == ExecuteGraph(executor, cliExists, graphs[i], GraphFileExists(graphs[i]),
                                  run_flag, outcome)
          IN  ret' = [op |-> "execute_graph", graph |-> graphs[i], run_flag |-> run_flag,
                      process |-> IF out.launched THEN outcome ELSE NotRun,
                      out |-> out]
    /\ UNCHANGED <<executor, cliExists, disk, docsPathSet, graphs, docs, seen>>

\* the caller keeps the result of a _score_graph call for later comparison
Remember ==
    /\ ret.op = "_score_graph"
    /\ seen' = ret
    /\ ret' = NoCall
    /\ UNCHANGED <<executor, cliExists, disk, docsPathSet, graphs, docs>>

\* the caller takes the result
Return ==
    /\ ret # NoCall
    /\ ret' = NoCall
    /\ UNCHANGED <<executor, cliExists, disk, docsPathSet, graphs, docs, seen>>

\* the catalog and the engine over a repository without documentation
Next ==
    \/ CreateRepo
    \/ RemoveRepo
    \/ AddFile
    \/ RemoveFile
    \/ Rebuild
    \/ GetAll
    \/ GetByName
    \/ Search
    \/ RecommendCall
    \/ Return

Spec == Init /\ [][Next]_vars

\* GraphCatalog(graph_repo_path) on a repository that holds files
InitScore ==
    /\ repoExists = TRUE
    /\ repoFiles = {i \in 1..Len(DynPool) : i <= MaxFiles}
    /\ docsPathSet = FALSE
    /\ docsExists = FALSE
    /\ graphs = <<>>
    /\ docs = <<>>
    /\ ret = NoCall
    /\ seen = NoCall
    /\ executor = DynamoExecutor(<<>>, FALSE)
    /\ cliExists = FALSE

\* the scorer, called again and again between other calls
NextScore ==
    \/ Rebuild
    \/ RecommendCall
    \/ Search
    \/ ScoreCall
    \/ Remember
    \/ Return

SpecScore == InitScore /\ [][NextScore]_vars

\* the catalog alone, with and without a documentation tree
NextCatalog ==
    \/ CreateRepo
    \/ RemoveRepo
    \/ AddFile
    \/ AddExtraFile
    \/ RemoveFile
    \/ CreateDocs
    \/ RemoveDocs
    \/ Rebuild
    \/ GetAll
    \/ Return

SpecCatalog == InitCatalog /\ [][NextCatalog]_vars

\* every operation of the catalog and of the engine, over a repository
\* whose files may go away
NextApi ==
    \/ RemoveFile
    \/ Rebuild
    \/ GetAll
    \/ GetByName
    \/ Search
    \/ RecommendCall
    \/ ExplainCall
    \/ Return

SpecApi == InitScore /\ [][NextApi]_vars

\* explain_recommendation alone, on every record and query
NextExplain ==
    \/ ExplainAny
    \/ Return

SpecExplain == InitScore /\ [][NextExplain]_vars

\* the executor over a catalog whose files may go away
NextExec ==
    \/ Rebuild
    \/ RemoveFile
    \/ Configure
    \/ InstallCli
    \/ RemoveCli
    \/ ExecuteCall
    \/ Return

SpecExec == InitScore /\ [][NextExec]_vars

\* the scorer alone, on every record and query
NextBoundary ==
    \/ ScoreBoundary
    \/ Return

SpecBoundary == InitScore /\ [][NextBoundary]_vars

(***************************************************************************)
(* Properties                                                              *)
(***************************************************************************)
\* the score _score_graph gives graph for query
ScoreOf(graph, query) ==
    ScoreGraph(graph, query, CHOOSE o \in Orders(WordSet(Lower(query))) : TRUE).score

\* the position of graph g in the catalog
IndexOf(g) == CHOOSE i \in 1..Len(graphs) : graphs[i] = g

\* C1: recommend(q, k) returns at most k results, each with a score above 0:
\* min(k, n) of the n catalog records that score above 0, each once and with
\* its score, and a record scoring above 0 is left out only when k results
\* are returned and none of them scores less than it.
C1_TopPositive ==
    ret.op = "recommend" =>
        LET r == ret.result
            scores == [i \in 1..Len(graphs) |-> ScoreOf(graphs[i], ret.query)]
            positive == {i \in 1..Len(graphs) : scores[i] > 0}
            n == Cardinality(positive)
        IN  /\ Len(r) <= ret.k
            /\ \A j \in 1..Len(r) : r[j].score > 0
            /\ Len(r) = IF ret.k < n THEN ret.k ELSE n
            /\ \A j \in 1..Len(r) :
                  \E i \in positive : r[j].graph = graphs[i] /\ r[j].score = scores[i]
            /\ \A j1, j2 \in 1..Len(r) : r[j1].graph = r[j2].graph => j1 = j2
            /\ \A i \in positive :
                  (\A j \in 1..Len(r) : r[j].graph # graphs[i]) =>
                      /\ Len(r) = ret.k
                      /\ \A j \in 1..Len(r) : r[j].score >= scores[i]

\* a recommend call that both discarded a record scoring 0 and cut off a
\* record scoring above 0
C1_Witness ==
    /\ ret.op = "recommend"
    /\ Len(ret.result) = ret.k
    /\ \E i \in 1..Len(graphs) : ScoreOf(graphs[i], ret.query) = 0
    /\ Cardinality({i \in 1..Len(graphs) : ScoreOf(graphs[i], ret.query) > 0}) > ret.k

\* C2: the results of recommend are in non-increasing order of score, and
\* results of equal score are in catalog order.
C2_SortedStable ==
    ret.op = "recommend" =>
        \A a, b \in 1..Len(ret.result) :
            a < b =>
                /\ ret.result[a].score >= ret.result[b].score
                /\ ret.result[a].score = ret.result[b].score =>
                       IndexOf(ret.result[a].graph) < IndexOf(ret.result[b].graph)

\* two results tie, and a record that comes before them in the catalog
\* scores less, yet above 0, and was ranked behind them
C2_Witness ==
    /\ ret.op = "recommend"
    /\ Len(ret.result) = 2
    /\ ret.result[1].score = ret.result[2].score
    /\ ret.result[1].graph # ret.result[2].graph
    /\ \E i \in 1..Len(graphs) :
          /\ i < IndexOf(ret.result[1].graph)
          /\ ScoreOf(graphs[i], ret.query) > 0
          /\ ScoreOf(graphs[i], ret.query) < ret.result[1].score

(***************************************************************************)
(* Properties of the scorer                                                *)
(***************************************************************************)
\* a _score_graph call has just returned
Scored(c) == c.op = "_score_graph"

\* C3: the score is never negative, and two _score_graph calls with the same
\* record and the same query return the same score and the same explanation,
\* whatever was called in between and in whatever order the query words
\* were visited.
C3_ScoreDeterministic ==
    /\ Scored(ret) => ret.score >= 0
    /\ (Scored(ret) /\ Scored(seen) /\ ret.graph = seen.graph /\ ret.query = seen.query) =>
           /\ ret.score = seen.score
           /\ ret.explanation = seen.explanation

\* the same record scored twice for the same query, above 0, with the query
\* words visited in different orders and the catalog rebuilt by then
C3_Witness ==
    /\ Scored(ret)
    /\ Scored(seen)
    /\ ret.graph = seen.graph
    /\ ret.query = seen.query
    /\ ret.order # seen.order
    /\ ret.score > 0
    /\ graphs # <<>>

\* 1 if b else 0
Ind(b) == IF b THEN 1 ELSE 0

\* the nodes of graph for which some word of the set words is a substring of
\* the lower-cased name or type
MatchedNodes(graph, words) ==
    {i \in 1..Len(graph.nodes) :
        \E w \in words : \/ IsSubstr(w, Lower(graph.nodes[i].name))
                         \/ IsSubstr(w, Lower(graph.nodes[i].type))}

\* the seven signals of a record and a query: how much each one adds
Signals(graph, query) ==
    LET q == Lower(query)
        words == WordSet(q)
        name == Lower(graph.name)
    IN  <<10 * Cardinality(words \cap WordSet(name)),
          20 * Ind(IsSubstr(q, name) \/ IsSubstr(name, q)),
          IF graph.description # <<>>
          THEN 5 * Cardinality(words \cap WordSet(Lower(graph.description)))
          ELSE 0,
          7 * Cardinality(words \cap WordSet(Lower(graph.category))),
          3 * Cardinality(MatchedNodes(graph, words)),
          5 * Ind(AnyKeyword(complexity_keywords, q) /\ graph.node_count > 10),
          5 * Ind(AnyKeyword(simplicity_keywords, q) /\ graph.node_count <= 5)>>

\* the signals that fire
Fired(graph, query) == LET t == Signals(graph, query) IN {k \in 1..7 : t[k] > 0}

\* C4: the score is the sum of the seven signal terms with the weights 10,
\* 20, 5, 7, 3, 5 and 5, and nothing else.
C4_ScoreIsSum ==
    Scored(ret) =>
        LET t == Signals(ret.graph, ret.query)
        IN  ret.score = t[1] + t[2] + t[3] + t[4] + t[5] + t[6] + t[7]

\* a score made of the name, description, category, node and simplicity terms
C4_Witness ==
    /\ Scored(ret)
    /\ {1, 3, 4, 5, 7} \subseteq Fired(ret.graph, ret.query)

\* the number of ", " separators in a text
Separators(text) == Cardinality({i \in 1..Len(text) : text[i] = ", "})

\* C5: the explanation is "No specific match found." exactly when no signal
\* fires, and the score is then 0; when a signal fires the score is above 0
\* and the explanation is "Recommended because ", one clause for each signal
\* that fired with ", " between them, and ".".
C5_ExplanationForm ==
    Scored(ret) =>
        LET fired == Fired(ret.graph, ret.query)
            e == ret.explanation
        IN  /\ (e = <<"No specific match found.">>) <=> (fired = {})
            /\ fired = {} => ret.score = 0
            /\ fired # {} =>
                  /\ ret.score > 0
                  /\ Len(e) >= 3
                  /\ e[1] = "Recommended because "
                  /\ e[Len(e)] = "."
                  /\ e[Len(e) - 1] # ", "
                  /\ e[2] # ", "
                  /\ Separators(e) = Cardinality(fired) - 1

\* a call for which nothing fired, after a call for which three or more
\* signals fired
C5_Witness ==
    /\ Scored(ret)
    /\ Scored(seen)
    /\ ret.explanation = <<"No specific match found.">>
    /\ Cardinality(Fired(seen.graph, seen.query)) >= 3

\* C6 as stated: two queries with the same set of tokens give a record the
\* same score.
C6_SameTokensSameScore ==
    (/\ Scored(ret)
     /\ Scored(seen)
     /\ ret.graph = seen.graph
     /\ WordSet(Lower(ret.query)) = WordSet(Lower(seen.query))) =>
        ret.score = seen.score

\* C6, amended: two queries with the same set of tokens give a record the
\* same score apart from the name-substring bonus of 20, which is decided on
\* the untokenized query: with that term taken out the scores are equal.
C6_SameTokensSameScoreButBonus ==
    (/\ Scored(ret)
     /\ Scored(seen)
     /\ ret.graph = seen.graph
     /\ WordSet(Lower(ret.query)) = WordSet(Lower(seen.query))) =>
        ret.score - Signals(ret.graph, ret.query)[2]
            = seen.score - Signals(seen.graph, seen.query)[2]

\* the same record scored for two different queries with the same tokens,
\* one in another word order, with different scores
C6_Witness ==
    /\ Scored(ret)
    /\ Scored(seen)
    /\ ret.graph = seen.graph
    /\ ret.query # seen.query
    /\ Len(ret.query) = Len(seen.query)
    /\ WordSet(Lower(ret.query)) = WordSet(Lower(seen.query))
    /\ ret.score # seen.score

(***************************************************************************)
(* Properties of the catalog                                               *)
(***************************************************************************)
\* C7: after build_catalog the graph records and the documentation records
\* are those that one build_catalog of an empty catalog produces from the
\* disk as it is, with nothing carried over or duplicated from earlier calls.
C7_RebuildDiscards ==
    ret.op = "build_catalog" =>
        LET once == BuildCatalog(<<>>, <<>>, repoExists, repoFiles, docsPathSet, docsExists)
        IN  /\ graphs = once.graphs
            /\ docs = once.docs

\* the names of nodes, one after the other
RECURSIVE ConcatNames(_)
ConcatNames(nodes) ==
    IF nodes = <<>> THEN <<>> ELSE Head(nodes).name \o ConcatNames(Tail(nodes))

\* the searchable fields of a record, one after the other without separators
PlainConcat(g) == Lower(g.name \o g.description \o g.category \o ConcatNames(g.nodes))

\* the names of nodes with one space between them
RECURSIVE SpacedNames(_)
SpacedNames(nodes) ==
    IF nodes = <<>> THEN <<>>
    ELSE IF Len(nodes) = 1 THEN nodes[1].name
    ELSE nodes[1].name \o <<" ">> \o SpacedNames(Tail(nodes))

\* the searchable fields of a record: name, description and category, each
\* followed by one space, then the node names with one space between them
SpacedConcat(g) ==
    Lower(g.name) \o <<" ">> \o Lower(g.description) \o <<" ">> \o Lower(g.category)
        \o <<" ">> \o Lower(SpacedNames(g.nodes))

\* C8 as stated: search returns, in catalog order, exactly the records for
\* which the lower-cased query is a substring of the lower-cased concatenation
\* of name, description, category and node names.
C8_SearchPlainConcat ==
    ret.op = "search_graphs" =>
        ret.result = SelectSeq(graphs, LAMBDA g : IsSubstr(Lower(ret.query), PlainConcat(g)))

\* C8, amended: search returns, in catalog order, exactly the records for
\* which the lower-cased query is a substring of the lower-cased text made of
\* name, description and category, each followed by a single space, and the
\* node names separated by single spaces.
C8_SearchSpacedConcat ==
    ret.op = "search_graphs" =>
        ret.result = SelectSeq(graphs, LAMBDA g : IsSubstr(Lower(ret.query), SpacedConcat(g)))

\* a search that returns some records and not others, for a query in upper
\* and lower case that runs from one field into the next
C8_Witness ==
    /\ ret.op = "search_graphs"
    /\ ret.result # <<>>
    /\ Len(ret.result) < Len(graphs)
    /\ Lower(ret.query) # ret.query
    /\ ~IsSubstr(Lower(ret.query), PlainConcat(ret.result[1]))

\* the positions of the catalog whose record is called name, ignoring case
Named(name) == {i \in 1..Len(graphs) : Lower(graphs[i].name) = Lower(name)}

\* C9: get_graph_by_name returns the first record in catalog order whose name
\* equals the given name ignoring case, and None when there is no such record.
C9_FirstByName ==
    ret.op = "get_graph_by_name" =>
        IF Named(ret.name) = {}
        THEN ret.result = <<>>
        ELSE /\ Len(ret.result) = 1
             /\ \E i \in Named(ret.name) :
                   /\ ret.result[1] = graphs[i]
                   /\ \A j \in Named(ret.name) : i <= j

\* two records share the name asked for, which is written in another case
\* than either of them
C9_Witness ==
    /\ ret.op = "get_graph_by_name"
    /\ Cardinality(Named(ret.name)) = 2
    /\ \A i \in Named(ret.name) : graphs[i].name # ret.name
    /\ ret.result # <<>>

\* C10: build_catalog on a graph_repo_path that does not exist returns 0 and
\* leaves the catalog without graph records, whatever it held before; and
\* while the catalog holds no graph record, recommend and search_graphs
\* return empty lists.
C10_MissingRootEmpty ==
    /\ (ret.op = "build_catalog" /\ ~repoExists) => (ret.count = 0 /\ graphs = <<>>)
    /\ (ret.op \in {"recommend", "search_graphs"} /\ graphs = <<>>) => ret.result = <<>>

\* build_catalog has returned on a missing graph_repo_path, called on a
\* catalog that held graph records
C10_Witness ==
    /\ ret.op = "build_catalog"
    /\ ~repoExists
    /\ ret.had > 0
    /\ graphs = <<>>

(***************************************************************************)
(* C11: parse failures during build_catalog                                *)
(***************************************************************************)
\* the files under the repository that parse, in walk order
Parsable == SelectSeq(DynFiles(repoFiles), LAMBDA f : f.loads)

\* C11: build_catalog skips a file that fails to parse and goes on: when
\* it returns, the catalog holds one record per file that parses, in walk
\* order, and the count it returns is the number of those files and the
\* length of what get_all_graphs gives
C11_SkipUnparsable ==
    /\ (ret.op = "build_catalog" /\ repoExists) =>
          /\ ret.count = Len(Parsable)
          /\ ret.count = Len(graphs)
          /\ \A j \in 1..Len(graphs) :
                graphs[j].filepath = PathJoin(GraphRepoPath, Parsable[j].stem \o <<".", "d", "y", "n">>)
    /\ ret.op = "get_all_graphs" => ret.result = graphs

\* a rebuild over a tree where a file that fails to parse lies between two
\* that parse
C11_Witness ==
    /\ ret.op = "build_catalog"
    /\ repoExists
    /\ \E i, j, k \in repoFiles :
          /\ i < j /\ j < k
          /\ AllFiles[i].loads /\ ~AllFiles[j].loads /\ AllFiles[k].loads
    /\ ret.count = 2

(***************************************************************************)
(* C12: documentation and a missing graph repository                       *)
(***************************************************************************)
\* C12: build_catalog indexes the documentation tree whether or not the
\* graph repository exists and whether or not a graph file was indexed:
\* when it returns with a docs_path that is set and exists, every
\* documentation file that reads has its record in docs
C12_DocsIndexedAnyway ==
    (ret.op = "build_catalog" /\ docsPathSet /\ docsExists) =>
        \A k \in 1..Len(DocTree) :
            DocTree[k].reads =>
                \E j \in 1..Len(docs) :
                    docs[j].filepath = PathJoin(DocsPath, DocTree[k].stem \o DocTree[k].ext)

(***************************************************************************)
(* C13: names of graph records                                             *)
(***************************************************************************)
\* C13: every graph record the catalog holds has a name that is not empty,
\* the file stem standing in when the file gives no usable name
C13_NameNeverEmpty ==
    \A j \in 1..Len(graphs) : graphs[j].name # <<>>

(***************************************************************************)
(* C14: the operations that read the catalog                               *)
(***************************************************************************)
ReadOps ==
    {"get_all_graphs", "get_graph_by_name", "search_graphs", "recommend",
     "explain_recommendation"}

\* C14: only build_catalog changes the catalog: a call of get_all_graphs,
\* get_graph_by_name, search_graphs, recommend or explain_recommendation
\* leaves the records, their fields and their order as they were
C14_ReadsLeaveCatalog ==
    [][(ret = NoCall /\ ret'.op \in ReadOps) => (graphs' = graphs /\ docs' = docs)]_vars

\* recommend has returned the records in another order than the catalog
\* holds them
C14_Witness ==
    /\ ret.op = "recommend"
    /\ Len(ret.result) >= 2
    /\ \E i, j \in 1..Len(graphs) :
          /\ i < j
          /\ ret.result[1].graph = graphs[j]
          /\ ret.result[2].graph = graphs[i]

(***************************************************************************)
(* C18: explain_recommendation                                             *)
(***************************************************************************)
\* text.split('\n'), for a text whose line breaks are pieces of their own
RECURSIVE SplitLines(_)
SplitLines(text) ==
    IF \A i \in 1..Len(text) : text[i] # "\n" THEN <<text>>
    ELSE LET i == CHOOSE k \in 1..Len(text) :
                      text[k] = "\n" /\ \A m \in 1..(k - 1) : text[m] # "\n"
         IN  <<SubSeq(text, 1, i - 1)>> \o SplitLines(SubSeq(text, i + 1, Len(text)))

Explained(c) == c.op = "explain_recommendation"

\* C18: the text explain_recommendation returns for a record and a query
\* carries the score and the explanation that _score_graph gives for them,
\* which are those of the record's entry in what recommend returns, and
\* its description line reads N/A exactly when the record's description
\* is empty, and carries the description otherwise
C18_ExplainRendersScore ==
    Explained(ret) =>
        LET lines == SplitLines(ret.result)
            described == SubSeq(lines[6], 2, Len(lines[6]))
        IN  /\ Len(lines) = 10
            /\ \A o \in Orders(WordSet(Lower(ret.query))) :
                  LET r == ScoreGraph(ret.graph, ret.query, o)
                      rec == Recommend(<<ret.graph>>, ret.query, 1, o)
                  IN  /\ lines[2] = <<"Score: ">> \o IntStr(r.score) \o <<".", "0">>
                      /\ lines[3] = <<"Explanation: ">> \o r.explanation
                      /\ rec # <<>> =>
                            /\ rec[1].score = r.score
                            /\ rec[1].explanation = r.explanation
            /\ lines[6][1] = "  - Description: "
            /\ described = <<"N", "/", "A">> <=> ret.graph.description = <<>>
            /\ ret.graph.description # <<>> => described = ret.graph.description

\* a record without description explained for a query it matches
C18_Witness ==
    /\ Explained(ret)
    /\ ret.graph.description = <<>>
    /\ ScoreOf(ret.graph, ret.query) > 0

(***************************************************************************)
(* C15, C16, C17: execute_graph                                            *)
(***************************************************************************)
Executed(c) == c.op = "execute_graph"

\* C15: execute_graph reports executed only if execution is allowed, the
\* run flag is given, dynamo_cli_path is not empty and exists, and the
\* graph file exists; when one of these fails it reports neither executed
\* nor success; and it never reports success without executed
C15_ExecutedOnlyIfAllowed ==
    (Executed(ret) /\ ~ret.out.raised) =>
        LET result == ret.out.result
            all == /\ executor.allow_execution
                   /\ ret.run_flag
                   /\ executor.dynamo_cli_path # <<>>
                   /\ cliExists
                   /\ GraphFileExists(ret.graph)
        IN  /\ result.executed => all
            /\ ~all => (~result.executed /\ ~result.success)
            /\ result.success => result.executed

\* execute_graph has reported executed and success, and the executable
\* exists
C15_Witness ==
    /\ Executed(ret)
    /\ ret.out.result.executed
    /\ ret.out.result.success
    /\ cliExists

\* the condition a call of execute_graph meets, the checks taken in the
\* order of the code
ConditionOf(ex, cli_exists, graph_exists, run_flag, process) ==
    IF ~ex.allow_execution THEN "disabled"
    ELSE IF ~run_flag THEN "consent"
    ELSE IF ex.dynamo_cli_path = <<>> \/ ~cli_exists THEN "not configured"
    ELSE IF ~graph_exists THEN "file missing"
    ELSE IF process.kind = "completed"
    THEN IF process.returncode = 0 THEN "success" ELSE "exit code"
    ELSE IF process.class = "TimeoutExpired" THEN "timeout"
    ELSE "exception"

\* C16: the message tells the conditions apart: two calls of execute_graph
\* that meet different conditions among disabled, no consent, executable
\* not configured or not found, graph file missing, non-zero exit code,
\* timeout, exception and success give different messages
C16_MessagesDiffer ==
    (Executed(ret) /\ ~ret.out.raised) =>
        LET here == ConditionOf(executor, cliExists, GraphFileExists(ret.graph),
                                ret.run_flag, ret.process)
        IN  \A path \in {<<>>, CliPath}, allow, cli_exists, graph_exists, run_flag \in BOOLEAN :
                \A i \in 1..Len(graphs), outcome \in Outcomes :
                    LET ex == DynamoExecutor(path, allow)
                        other == ExecuteGraph(ex, cli_exists, graphs[i], graph_exists,
                                              run_flag, outcome)
                    IN  ConditionOf(ex, cli_exists, graph_exists, run_flag, outcome) # here
                            => other.result.message # ret.out.result.message

\* execute_graph has met an exception that has no text
C16_Witness ==
    /\ Executed(ret)
    /\ ret.process.kind = "raises"
    /\ ret.process.class # "TimeoutExpired"
    /\ ret.process.text = <<>>
    /\ Len(graphs) >= 2

\* C17: execute_graph does not raise: whether the process exits with zero
\* or not, times out or subprocess.run raises another exception, the
\* caller gets a result dict, and after a timeout or an exception its
\* success is false
C17_NeverRaises ==
    Executed(ret) =>
        /\ ~ret.out.raised
        /\ DOMAIN ret.out.result = {"success", "executed", "message", "output", "error"}
        /\ ret.process.kind = "raises" => ~ret.out.result.success

\* subprocess.run has raised an exception that is not a timeout
C17_Witness ==
    /\ Executed(ret)
    /\ ret.process.kind = "raises"
    /\ ret.process.class = "PermissionError"
    /\ ~ret.out.raised

(***************************************************************************)
(* C19: complexity and simplicity bonuses                                  *)
(***************************************************************************)
\* the explanation has a clause that starts with lead
HasClause(explanation, lead) == \E i \in 1..Len(explanation) : explanation[i] = lead

\* C19: the complexity signal fires exactly when the query contains a
\* complexity keyword and node_count is above 10, the simplicity signal
\* exactly when the query contains a simplicity keyword and node_count is
\* at most 5; each is decided for every record, the two never fire
\* together, and with node_count from 6 to 10 neither fires
C19_BonusThresholds ==
    Scored(ret) =>
        LET q == Lower(ret.query)
            n == ret.graph.node_count
            complex == HasClause(ret.explanation, "complex graph with ")
            simple == HasClause(ret.explanation, "simple graph with ")
            others == LET t == Signals(ret.graph, ret.query)
                      IN  t[1] + t[2] + t[3] + t[4] + t[5]
        IN  /\ complex <=> (AnyKeyword(complexity_keywords, q) /\ n > 10)
            /\ simple <=> (AnyKeyword(simplicity_keywords, q) /\ n <= 5)
            /\ ~(complex /\ simple)
            /\ n \in 6..10 => (~complex /\ ~simple)
            /\ ret.score - others = 5 * Ind(complex) + 5 * Ind(simple)

\* a query with keywords of both lists scored on a record with five nodes,
\* which gets the simplicity bonus
C19_Witness ==
    /\ Scored(ret)
    /\ AnyKeyword(complexity_keywords, Lower(ret.query))
    /\ AnyKeyword(simplicity_keywords, Lower(ret.query))
    /\ ret.graph.node_count = 5
    /\ HasClause(ret.explanation, "simple graph with ")

(***************************************************************************)
(* C20: node relevance                                                     *)
(***************************************************************************)
\* C20: a node counts once however many words of the query are found in
\* it: the node term is 3 times the number of nodes with some word of the
\* query in their lower-cased name or type, which the explanation states,
\* and it is at most 3 times the number of nodes
C20_NodeCountsOnce ==
    Scored(ret) =>
        LET words == WordSet(Lower(ret.query))
            m == Cardinality(MatchedNodes(ret.graph, words))
            t == Signals(ret.graph, ret.query)
            e == ret.explanation
        IN  /\ ret.score - (t[1] + t[2] + t[3] + t[4] + t[6] + t[7]) = 3 * m
            /\ 3 * m <= 3 * Len(ret.graph.nodes)
            /\ HasClause(e, "contains ") <=> m > 0
            /\ \A i \in 1..Len(e) :
                  e[i] = "contains " =>
                      /\ SubSeq(e, i + 1, i + Len(IntStr(m))) = IntStr(m)
                      /\ e[i + Len(IntStr(m)) + 1] = " relevant node(s)"

\* a record with a node in which two words of the query are found, and all
\* of whose nodes match
C20_Witness ==
    /\ Scored(ret)
    /\ LET words == WordSet(Lower(ret.query))
           found(node) == {w \in words : \/ IsSubstr(w, Lower(node.name))
                                          \/ IsSubstr(w, Lower(node.type))}
       IN  /\ \E i \in 1..Len(ret.graph.nodes) : Cardinality(found(ret.graph.nodes[i])) >= 2
           /\ Cardinality(MatchedNodes(ret.graph, words)) = Len(ret.graph.nodes)

(***************************************************************************)
(* C21: the clauses of the explanation                                     *)
(***************************************************************************)
\* how the clause of each signal begins, in the order of the signals: name
\* words, name substring, description, category, nodes, complexity,
\* simplicity
ClauseLeads ==
    <<"name matches '", "name closely matches query",
      "description contains relevant keywords", "category '", "contains ",
      "complex graph with ", "simple graph with ">>

\* the clause beginnings found in an explanation, in the order of the text
LeadsIn(explanation) ==
    SelectSeq(explanation, LAMBDA piece : \E k \in 1..7 : piece = ClauseLeads[k])

\* the clause beginnings of the signals of the set fired, in signal order
LeadsOf(fired) ==
    LET ks == SelectSeq([k \in 1..7 |-> k], LAMBDA k : k \in fired)
    IN  [j \in 1..Len(ks) |-> ClauseLeads[ks[j]]]

\* C21: the explanation has one clause for each signal that fired and no
\* other, and the clauses stand in the order of the signals: name words,
\* name substring, description, category, nodes, complexity, simplicity
C21_ClausesInSignalOrder ==
    Scored(ret) => LeadsIn(ret.explanation) = LeadsOf(Fired(ret.graph, ret.query))

\* five signals or more fired, the description and the category among them
C21_Witness ==
    /\ Scored(ret)
    /\ {3, 4} \subseteq Fired(ret.graph, ret.query)
    /\ Cardinality(Fired(ret.graph, ret.query)) >= 5
    /\ Len(LeadsIn(ret.explanation)) >= 5

(***************************************************************************)
(* C22: the order of the checks of execute_graph                           *)
(***************************************************************************)
\* C22: execute_graph reports the first check that fails, in the order
\* execution disabled, run flag missing, executable not configured or not
\* found, graph file missing: when execution is disabled the message is
\* the one about that, whatever the run flag, the executable and the graph
\* file are, and so on down the order
C22_FirstFailedCheck ==
    (Executed(ret) /\ ~ret.out.raised) =>
        LET message == ret.out.result.message
            allowed == executor.allow_execution
            configured == executor.dynamo_cli_path # <<>> /\ cliExists
            present == GraphFileExists(ret.graph)
        IN  /\ ~allowed => message = DisabledMessage
            /\ (allowed /\ ~ret.run_flag) => message = ConsentMessage
            /\ (allowed /\ ret.run_flag /\ ~configured) => message = NotConfiguredMessage
            /\ (allowed /\ ret.run_flag /\ configured /\ ~present) =>
                  message = NotFoundMessage(ret.graph.filepath)
            /\ (allowed /\ ret.run_flag /\ configured /\ present) =>
                  message \notin {DisabledMessage, ConsentMessage, NotConfiguredMessage,
                                  NotFoundMessage(ret.graph.filepath)}

\* a call for which all four checks fail
C22_Witness ==
    /\ Executed(ret)
    /\ ~executor.allow_execution
    /\ ~ret.run_flag
    /\ ~cliExists
    /\ ~GraphFileExists(ret.graph)
    /\ ret.out.result.message = DisabledMessage

====
